---------------------------- MODULE Spec2Model ----------------------------
(***************************************************************************)
(* Model of dicer_ugc: the cost ledger (cost_tracker.py), the variant      *)
(* matrix (variant_matrix.py), the run state (models.py) and the pipeline  *)
(* runner (runner.py).                                                     *)
(*                                                                         *)
(* Money.  The ledger works in USD floats; the model counts micro-dollars  *)
(* (1e-6 USD) so that every rate of PROVIDER_RATES is an integer.  The     *)
(* runner's per-task costs are counted in cents.  Float rounding is not    *)
(* modelled.                                                               *)
(*                                                                         *)
(* Scheduling.  Everything runs on one asyncio event loop: the code        *)
(* between two awaits of a coroutine is one atomic action.                 *)
(***************************************************************************)
EXTENDS Integers, Sequences, FiniteSets, TLC

(***************************************************************************)
(* Bounds of the model.                                                    *)
(***************************************************************************)
MaxEntries == 3
NumCallers == 2
MaxVariants == 1
MaxParallel == 2
MaxBuilds == 2

\* Python's None, for a string field
None == "None"
\* Optional[number]: <<>> is None, <<v>> is the number v
Nothing == <<>>
Some(v) == <<v>>

(***************************************************************************)
(* cost_tracker.py                                                         *)
(***************************************************************************)
Provider == {"elevenlabs", "gemini", "arcads", "replicate"}

\* PROVIDER_RATES, in micro-dollars per unit.
PROVIDER_RATES ==
    [k \in {<<"elevenlabs", "tts_per_character">>,
            <<"gemini", "vision_per_token">>,
            <<"gemini", "vision_per_image">>,
            <<"arcads", "avatar_generation">>,
            <<"replicate", "wav2lip_per_second">>} |->
        CASE k = <<"elevenlabs", "tts_per_character">> -> 150
          [] k = <<"gemini", "vision_per_token">> -> 2
          [] k = <<"gemini", "vision_per_image">> -> 20000
          [] k = <<"arcads", "avatar_generation">> -> 5000000
          [] k = <<"replicate", "wav2lip_per_second">> -> 10000]

\* Inputs of the ledger operations.
LedgerCaps == {1000000}
Units == {0, 40}
ScriptUnitCosts == {Nothing, Some(10000)}
TextLens == {40, 2000}
NumTokens == {100000}
NumImages == {1, 40}

VARIABLES
    cost_cap,             \* CostTracker.cost_cap
    output_dir,           \* CostTracker.output_dir: TRUE when a directory is given
    entries,              \* CostTracker.entries
    total_by_provider,    \* CostTracker._total_by_provider
    cost_file,            \* the lines of <output_dir>/cost_tracking.jsonl
    last_call,            \* the ledger call the latest step made, and how it
                          \* ended (NoCall when the step made none)
    awaiting              \* the generate_variation coroutines awaiting their response

ledger_vars == <<cost_cap, output_dir, entries, total_by_provider, cost_file,
                 last_call, awaiting>>

VARIABLES
    config,         \* PipelineRunner.config
    max_parallel,   \* PipelineRunner.max_parallel
    pc,             \* where the process of the run is: "init" (runner built,
                    \* nothing called), "dispatch" (inside _run_tasks_async),
                    \* "finished" (run or resume returned), "raised" (run
                    \* raised after its final save), "failed" (resume
                    \* raised), "killed" (the process was killed)
    mode,           \* the call that is or was last executing: "run", "resume"
    state,          \* PipelineRunner.state: Nothing or Some(RunState)
    tasks,          \* the list given to _run_tasks_async
    coro,           \* per task of that list, its process_with_semaphore:
                    \* "waiting" for the semaphore, "woken" by a release,
                    \* "running" _process_task (at its await), "done"
    semaphore,      \* the value of the asyncio.Semaphore
    outcome,        \* per task id, how its provider pipeline ended in this
                    \* process: "none", "ok", "raise"
    state_json,     \* <output_dir>/state.json
    config_yaml,    \* <output_dir>/config.yaml
    manifest,       \* <output_dir>/manifest.json
    cost_report,    \* <output_dir>/cost_report.json
    returned        \* what the latest call of run() or resume() returned:
                    \* Nothing while none has returned, or Some(RunState)

runner_vars == <<config, max_parallel, pc, mode, state, tasks, coro, semaphore,
                 outcome, state_json, config_yaml, manifest, cost_report,
                 returned>>

VARIABLES
    builder,        \* VariantMatrixBuilder.config of the builder at hand
    process,        \* the number of the process the builder lives in
    builds,         \* what the calls of build_matrix made so far did, in order
    resumed         \* the last call of get_resume_tasks: Nothing, or Some of
                    \* its argument and of the list it returned

matrix_vars == <<builder, process, builds, resumed>>

vars == <<ledger_vars, runner_vars, matrix_vars>>

\* CostTracker.get_total_cost
get_total_cost(tbp) ==
    tbp["elevenlabs"] + tbp["gemini"] + tbp["arcads"] + tbp["replicate"]

\* CostEntry (the timestamp is left out)
CostEntry(provider, operation, units, unit_cost, total_cost, task_id, metadata) ==
    [provider |-> provider, operation |-> operation, units |-> units,
     unit_cost |-> unit_cost, total_cost |-> total_cost,
     task_id |-> task_id, metadata |-> metadata]

\* CostTracker._save_entry: one JSON line appended, when there is a directory
save_entry(file, dir, entry) ==
    IF dir
    THEN Append(file, [provider |-> entry.provider, operation |-> entry.operation,
                       units |-> entry.units, unit_cost |-> entry.unit_cost,
                       total_cost |-> entry.total_cost, task_id |-> entry.task_id,
                       metadata |-> entry.metadata])
    ELSE file

\* Faulty variant: an operation without a rate is priced at nothing.
unit_cost_of_mut(provider, operation, unit_cost) ==
    IF unit_cost = Nothing
    THEN IF <<provider, operation>> \in DOMAIN PROVIDER_RATES
         THEN Some(PROVIDER_RATES[<<provider, operation>>])
         ELSE Some(0)
    ELSE unit_cost

\* The rate lookup of track_cost: the unit cost used, None when there is none.
unit_cost_of(provider, operation, unit_cost) ==
    IF unit_cost = Nothing
    THEN IF <<provider, operation>> \in DOMAIN PROVIDER_RATES
         THEN Some(PROVIDER_RATES[<<provider, operation>>])
         ELSE Nothing
    ELSE unit_cost

\* Faulty variant: a charge that takes the total exactly to the cap is refused.
exceeds_cap_mut(new_total, cap) == new_total >= cap

\* The cap check of track_cost
exceeds_cap(new_total, cap) == new_total > cap

\* Faulty variant: a cost that takes the total exactly to the cap is refused.
can_afford_mut(tbp, cap, estimated_cost) == get_total_cost(tbp) + estimated_cost < cap

\* CostTracker.can_afford
can_afford(tbp, cap, estimated_cost) == get_total_cost(tbp) + estimated_cost <= cap

\* CostTracker.get_remaining_budget: max(0, cost_cap - get_total_cost())
get_remaining_budget(tbp, cap) ==
    IF 0 >= cap - get_total_cost(tbp) THEN 0 ELSE cap - get_total_cost(tbp)

\* Faulty variant: the check starts from the total of this provider alone.
current_total_mut(tbp, provider) == tbp[provider]

\* The total the cap check of track_cost starts from: self.get_total_cost()
current_total(tbp, provider) == get_total_cost(tbp)

\* Faulty variant: the entry is recorded before the exception is raised.
rejected_mut(L, dir, entry) ==
    [entries |-> Append(L.entries, entry),
     total_by_provider |->
        [L.total_by_provider EXCEPT ![entry.provider] = @ + entry.total_cost],
     cost_file |-> save_entry(L.cost_file, dir, entry)]

\* The ledger after track_cost raised CostCapExceeded: nothing was touched
rejected(L, dir, entry) == L

\* Faulty variant: the new entry is put in front of the list.
recorded_prepend(L, dir, entry) ==
    [entries |-> <<entry>> \o L.entries,
     total_by_provider |->
        [L.total_by_provider EXCEPT ![entry.provider] = @ + entry.total_cost],
     cost_file |-> save_entry(L.cost_file, dir, entry)]

\* The ledger after track_cost recorded the entry
recorded(L, dir, entry) ==
    [entries |-> Append(L.entries, entry),
     total_by_provider |->
        [L.total_by_provider EXCEPT ![entry.provider] = @ + entry.total_cost],
     cost_file |-> save_entry(L.cost_file, dir, entry)]

\* CostTracker.track_cost on the ledger L = [entries, total_by_provider,
\* cost_file]: the ledger after the call, with how the call ended (outcome)
\* and what it returned (ret).
track_cost(L, cap, dir, provider, operation, units, unit_cost, metadata) ==
    LET found == unit_cost_of(provider, operation, unit_cost) IN
    IF found = Nothing
    THEN [ledger |-> L, outcome |-> "ValueError", ret |-> Nothing]
    ELSE LET rate == found[1]
             total_cost == units * rate
             new_total == current_total(L.total_by_provider, provider) + total_cost
             entry == CostEntry(provider, operation, units, rate, total_cost,
                                None, metadata)
         IN IF exceeds_cap(new_total, cap)
            THEN [ledger |-> rejected(L, dir, entry),
                  outcome |-> "CostCapExceeded", ret |-> Nothing]
            ELSE [ledger |-> recorded(L, dir, entry),
                  outcome |-> "ok", ret |-> Some(total_cost)]

\* The metadata of track_tts: the text itself, or its first 50 characters and
\* "..." (texts are modelled by their length, metadata by <<>> when empty
\* and by the length of the preview otherwise)
text_preview(len) == IF len > 50 THEN 50 + 3 ELSE len

\* CostTracker.track_tts
track_tts(L, cap, dir, len) ==
    track_cost(L, cap, dir, "elevenlabs", "tts_per_character", len, Nothing,
               <<text_preview(len)>>)

\* Faulty variant: both charges are checked before either is recorded.
track_vision_eval_atomic(L, cap, dir, num_tokens, num_images) ==
    LET token == track_cost(L, cap, dir, "gemini", "vision_per_token",
                            num_tokens, Nothing, <<>>)
    IN IF token.outcome # "ok" THEN token
       ELSE LET image == track_cost(token.ledger, cap, dir, "gemini",
                                    "vision_per_image", num_images, Nothing, <<>>)
            IN IF image.outcome # "ok" THEN [image EXCEPT !.ledger = L]
               ELSE [image EXCEPT !.ret = Some(token.ret[1] + image.ret[1])]

\* CostTracker.track_vision_eval: the token charge, then the image charge; an
\* exception of either ends the call.
track_vision_eval(L, cap, dir, num_tokens, num_images) ==
    LET token == track_cost(L, cap, dir, "gemini", "vision_per_token",
                            num_tokens, Nothing, <<>>)
    IN IF token.outcome # "ok" THEN token
       ELSE LET image == track_cost(token.ledger, cap, dir, "gemini",
                                    "vision_per_image", num_images, Nothing, <<>>)
            IN IF image.outcome # "ok" THEN image
               ELSE [image EXCEPT !.ret = Some(token.ret[1] + image.ret[1])]

\* Faulty variant: the entries are replayed, the totals are not.
load_existing_mut(L, lines) ==
    [L EXCEPT !.entries =
        @ \o [k \in DOMAIN lines |->
                CostEntry(lines[k].provider, lines[k].operation, lines[k].units,
                          lines[k].unit_cost, lines[k].total_cost,
                          lines[k].task_id, lines[k].metadata)]]

\* CostTracker._load_existing: the lines replayed in file order
RECURSIVE load_existing(_, _)
load_existing(L, lines) ==
    IF lines = <<>> THEN L
    ELSE LET data == Head(lines)
             entry == CostEntry(data.provider, data.operation, data.units,
                                data.unit_cost, data.total_cost, data.task_id,
                                data.metadata)
         IN load_existing(
                [L EXCEPT !.entries = Append(@, entry),
                          !.total_by_provider[entry.provider] = @ + entry.total_cost],
                Tail(lines))

Ledger == [entries |-> entries, total_by_provider |-> total_by_provider,
           cost_file |-> cost_file]

NoCall == [op |-> "init", args |-> <<>>, outcome |-> "ok", ret |-> Nothing]

\* CostTracker.__init__ on a directory without a ledger file
LedgerInit ==
    /\ cost_cap \in LedgerCaps
    /\ output_dir \in BOOLEAN
    /\ entries = <<>>
    /\ total_by_provider = [p \in Provider |-> 0]
    /\ cost_file = <<>>
    /\ last_call = NoCall
    /\ awaiting = {}

Finish(op, args, r) ==
    /\ entries' = r.ledger.entries
    /\ total_by_provider' = r.ledger.total_by_provider
    /\ cost_file' = r.ledger.cost_file
    /\ last_call' = [op |-> op, args |-> args, outcome |-> r.outcome, ret |-> r.ret]
    /\ UNCHANGED <<cost_cap, output_dir>>

Callers == 1..NumCallers

\* ScriptGenerator.generate_variation up to its await of the model's response
GenerateVariation(c) ==
    /\ UNCHANGED <<runner_vars, matrix_vars>>
    /\ c \notin awaiting
    /\ awaiting' = awaiting \cup {c}
    /\ last_call' = NoCall
    /\ UNCHANGED <<cost_cap, output_dir, entries, total_by_provider, cost_file>>

\* A call of track_cost with the rate of the table (wav2lip seconds).
TrackCostRated ==
    /\ UNCHANGED <<runner_vars, matrix_vars>>
    /\ Len(entries) < MaxEntries
    /\ UNCHANGED awaiting
    /\ \E units \in Units :
         Finish("track_cost", <<"replicate", "wav2lip_per_second", units, Nothing>>,
                track_cost(Ledger, cost_cap, output_dir, "replicate",
                           "wav2lip_per_second", units, Nothing, <<>>))

\* ScriptGenerator.generate_variation from the response on: its call of
\* track_cost (an operation the table does not price), with the unit cost and,
\* for the same pair, without.
TrackCostScript(c) ==
    /\ UNCHANGED <<runner_vars, matrix_vars>>
    /\ c \in awaiting
    /\ awaiting' = awaiting \ {c}
    /\ Len(entries) < MaxEntries
    /\ \E units \in Units, unit_cost \in ScriptUnitCosts :
         Finish("track_cost", <<"gemini", "script_generation", units, unit_cost>>,
                track_cost(Ledger, cost_cap, output_dir, "gemini",
                           "script_generation", units, unit_cost, <<>>))

TrackTts ==
    /\ UNCHANGED <<runner_vars, matrix_vars>>
    /\ Len(entries) < MaxEntries
    /\ UNCHANGED awaiting
    /\ \E len \in TextLens :
         Finish("track_tts", <<len>>, track_tts(Ledger, cost_cap, output_dir, len))

TrackVisionEval ==
    /\ UNCHANGED <<runner_vars, matrix_vars>>
    /\ Len(entries) + 1 < MaxEntries
    /\ UNCHANGED awaiting
    /\ \E num_tokens \in NumTokens, num_images \in NumImages :
         Finish("track_vision_eval", <<num_tokens, num_images>>,
                track_vision_eval(Ledger, cost_cap, output_dir, num_tokens, num_images))

\* A new CostTracker on the same directory with the same cap (a restart).
Reconstruct ==
    /\ UNCHANGED <<runner_vars, matrix_vars>>
    /\ LET L == load_existing([entries |-> <<>>,
                               total_by_provider |-> [p \in Provider |-> 0],
                               cost_file |-> cost_file], cost_file)
       IN /\ entries' = L.entries
          /\ total_by_provider' = L.total_by_provider
    /\ last_call' = [NoCall EXCEPT !.op = "load_existing"]
    /\ awaiting' = {}
    /\ UNCHANGED <<cost_cap, output_dir, cost_file>>

(***************************************************************************)
(* variant_matrix.py                                                       *)
(***************************************************************************)
\* Inputs of a run: the configuration and the runner's max_parallel.
OfferId == "ccw713"
ActorLists == {<<"olivia">>, <<"olivia", "janet">>}
CostCaps == {21, 50, 3000}

\* VariantMatrixBuilder._generate_task_id: the content that is hashed stands
\* for the digest (distinct contents are taken to have distinct digests).
generate_task_id(offer_id, actor_id, variant_type, variant_num) ==
    <<offer_id, actor_id, variant_type, variant_num>>

\* VariantTask(task_id=..., actor_id=..., variant_type=..., variant_num=...):
\* the keyword arguments build_matrix writes (script_text is left out).  The
\* record stands for the task they describe; what the dataclass of models.py
\* does with them is VariantTask_init below.
VariantTask(task_id, actor_id, variant_type, variant_num) ==
    [task_id |-> task_id, actor_id |-> actor_id,
     variant_type |-> variant_type, variant_num |-> variant_num]

\* The tasks build_matrix appends for one actor: the identical one if
\* enabled, then the modified ones 1..minor_script_variants.
actor_tasks(cfg, actor_id) ==
    (IF cfg.identical_script
     THEN <<VariantTask(generate_task_id(cfg.offer_id, actor_id, "identical", 0),
                        actor_id, "identical", 0)>>
     ELSE <<>>)
    \o [variant_num \in 1..cfg.minor_script_variants |->
          VariantTask(generate_task_id(cfg.offer_id, actor_id, "modified", variant_num),
                      actor_id, "modified", variant_num)]

RECURSIVE matrix_of(_, _)
matrix_of(cfg, actors) ==
    IF actors = <<>> THEN <<>>
    ELSE actor_tasks(cfg, Head(actors)) \o matrix_of(cfg, Tail(actors))

\* VariantMatrixBuilder.build_matrix: the task list its loop is written to
\* build, one VariantTask(...) per append, in append order.  What a call
\* returns or raises with the dataclass as declared is build_matrix_call.
build_matrix(cfg) == matrix_of(cfg, cfg.actors)

Range(seq) == {seq[i] : i \in DOMAIN seq}

\* Faulty variant: nothing is filtered out.
get_resume_tasks_mut(cfg, completed_task_ids) == build_matrix(cfg)

\* Faulty variant: the tasks that remain come last first.
get_resume_tasks_rev(cfg, completed_task_ids) ==
    LET kept == SelectSeq(build_matrix(cfg),
                          LAMBDA task : task.task_id \notin Range(completed_task_ids))
    IN [k \in 1..Len(kept) |-> kept[Len(kept) + 1 - k]]

\* VariantMatrixBuilder.get_resume_tasks
get_resume_tasks(cfg, completed_task_ids) ==
    SelectSeq(build_matrix(cfg), LAMBDA task : task.task_id \notin Range(completed_task_ids))

\* Actor of models.py
Actor(name, scene_id, voice_id, style) ==
    [name |-> name, scene_id |-> scene_id, voice_id |-> voice_id, style |-> style]

\* PipelineConfig.actors after validate_actors: Actor objects, a plain name
\* becoming Actor(name, scene_id=""), no name twice.
Olivia == Actor("olivia", "", None, None)
OliviaVoiced == Actor("olivia", "scene_1", "voice_1", "calm")
Janet == Actor("janet", "", None, None)
BuilderActorLists ==
    {<<Olivia>>, <<OliviaVoiced>>, <<Janet>>, <<Olivia, Janet>>, <<Janet, Olivia>>,
     <<OliviaVoiced, Janet>>}

BuilderConfigs ==
    [offer_id : {OfferId}, actors : BuilderActorLists, identical_script : BOOLEAN,
     minor_script_variants : 0..MaxVariants, cost_cap : {3000}]

\* The fields of the dataclass VariantTask, and those without a default
VariantTaskFields ==
    {"task_id", "actor", "variant_type", "variant_num", "script_text", "offer_metadata"}
VariantTaskRequired == {"task_id", "actor", "variant_type", "variant_num"}

\* VariantTask.__init__ as @dataclass generates it, called with keyword
\* arguments: a keyword that is not a field, or a field without a default
\* that is not given, is a TypeError.
VariantTask_init(kwargs) ==
    IF DOMAIN kwargs \subseteq VariantTaskFields
       /\ VariantTaskRequired \subseteq DOMAIN kwargs
    THEN "ok" ELSE "TypeError"

\* A call of build_matrix(): the loop runs until a VariantTask(...) raises.
\* task_ids are the values _generate_task_id returned during the call (the
\* id is computed before the constructor is entered).
build_matrix_call(cfg) ==
    LET calls == build_matrix(cfg)
        raising == {k \in DOMAIN calls : VariantTask_init(calls[k]) # "ok"}
    IN IF raising = {}
       THEN [outcome |-> "ok", tasks |-> calls,
             task_ids |-> [k \in DOMAIN calls |-> calls[k].task_id]]
       ELSE LET first == CHOOSE k \in raising : \A j \in raising : k <= j
            IN [outcome |-> "TypeError", tasks |-> <<>>,
                task_ids |-> [k \in 1..first |-> calls[k].task_id]]

(***************************************************************************)
(* models.py                                                               *)
(***************************************************************************)
\* The cost of a simulated task, in cents.
TtsCost == 15
RubricCost == 6

\* A dict is the set of its <<key, value>> pairs.
RECURSIVE SumValues(_)
SumValues(dict) ==
    IF dict = {} THEN 0
    ELSE LET kv == CHOOSE x \in dict : TRUE
         IN kv[2] + SumValues(dict \ {kv})

\* TaskResult.total_cost
result_total_cost(result) == SumValues(result.costs)

\* pathlib.Path(text), and str(path) of such a path
Path(text) == <<"Path", text>>
str(path) == path[2]

\* TaskResult (start_time and end_time are left out)
TaskResult(task_id, status, error_message, outputs, costs) ==
    [task_id |-> task_id, status |-> status, error_message |-> error_message,
     outputs |-> outputs, video_outputs |-> None, costs |-> costs]

\* self.run_id of the runner: the name of the run directory
run_id == "run_20240101_000000"

\* RunState(run_id, config_hash, total_tasks) with the defaults of the
\* dataclass (start_time is left out)
RunState(config_hash, total_tasks) ==
    [run_id |-> run_id,
     config_hash |-> config_hash, total_tasks |-> total_tasks,
     completed_tasks |-> <<>>, failed_tasks |-> <<>>,
     task_results |-> <<>>, total_cost |-> 0, end_time |-> None]

\* Faulty variant: the error messages are not written.
to_dict_no_error(rs) ==
    [run_id |-> rs.run_id,
     config_hash |-> rs.config_hash, total_tasks |-> rs.total_tasks,
     completed_tasks |-> rs.completed_tasks, failed_tasks |-> rs.failed_tasks,
     task_results |->
        [k \in DOMAIN rs.task_results |->
            [task_id |-> rs.task_results[k].task_id,
             status |-> rs.task_results[k].status,
             error_message |-> None,
             outputs |-> {<<ov[1], str(ov[2])>> : ov \in rs.task_results[k].outputs},
             costs |-> rs.task_results[k].costs]],
     total_cost |-> rs.total_cost, end_time |-> rs.end_time]

\* RunState.to_dict: what json.dump writes (video_outputs is not written, a
\* Path of outputs is written as its text)
to_dict(rs) ==
    [run_id |-> rs.run_id,
     config_hash |-> rs.config_hash, total_tasks |-> rs.total_tasks,
     completed_tasks |-> rs.completed_tasks, failed_tasks |-> rs.failed_tasks,
     task_results |->
        [k \in DOMAIN rs.task_results |->
            [task_id |-> rs.task_results[k].task_id,
             status |-> rs.task_results[k].status,
             error_message |-> rs.task_results[k].error_message,
             outputs |-> {<<ov[1], str(ov[2])>> : ov \in rs.task_results[k].outputs},
             costs |-> rs.task_results[k].costs]],
     total_cost |-> rs.total_cost, end_time |-> rs.end_time]

\* Faulty variant: total_tasks is recounted from the lists of the file.
from_dict_mut(data) ==
    [run_id |-> data.run_id, config_hash |-> data.config_hash,
     total_tasks |-> Len(data.completed_tasks) + Len(data.failed_tasks),
     completed_tasks |-> data.completed_tasks, failed_tasks |-> data.failed_tasks,
     task_results |->
        [k \in DOMAIN data.task_results |->
            TaskResult(data.task_results[k].task_id, data.task_results[k].status,
                       data.task_results[k].error_message,
                       {<<kv[1], Path(kv[2])>> : kv \in data.task_results[k].outputs},
                       data.task_results[k].costs)],
     total_cost |-> data.total_cost, end_time |-> data.end_time]

\* RunState.from_dict
from_dict(data) ==
    [run_id |-> data.run_id,
     config_hash |-> data.config_hash, total_tasks |-> data.total_tasks,
     completed_tasks |-> data.completed_tasks, failed_tasks |-> data.failed_tasks,
     task_results |->
        [k \in DOMAIN data.task_results |->
            TaskResult(data.task_results[k].task_id, data.task_results[k].status,
                       data.task_results[k].error_message,
                       {<<kv[1], Path(kv[2])>> : kv \in data.task_results[k].outputs},
                       data.task_results[k].costs)],
     total_cost |-> data.total_cost, end_time |-> data.end_time]

\* A file of the run directory
Missing == [kind |-> "missing"]
Truncated == [kind |-> "truncated"]
Written(data) == [kind |-> "json", data |-> data]

\* Faulty variant: the end_time is not written.
save_no_end(rs) == Written([to_dict(rs) EXCEPT !.end_time = None])

\* RunState.save: the whole file rewritten
save(rs) == Written(to_dict(rs))

(***************************************************************************)
(* runner.py                                                               *)
(***************************************************************************)
\* How the provider pipeline of a task ends: well, or by raising an exception
\* (CostCapExceeded of a ledger a provider charges is one: _process_task
\* catches Exception, whatever its class)
Outcomes == {"ok", "raise"}

\* PipelineConfig.total_videos
total_videos(cfg) == Len(cfg.actors) * (1 + cfg.minor_script_variants)

Configs ==
    [offer_id : {OfferId}, actors : ActorLists, identical_script : BOOLEAN,
     minor_script_variants : 0..MaxVariants, cost_cap : CostCaps]

\* utils.hash_config: the configuration stands for its digest
hash_config(cfg) == cfg

\* VariantTask.output_filename: the fields the name is formatted from
output_filename(task) == <<task.actor_id, task.variant_type, task.variant_num>>

\* Faulty variant: the except branch does not set the status.
process_task_mut(task, out) ==
    IF out = "ok"
    THEN TaskResult(task.task_id, "completed", None,
                    {<<"final_video", Path(output_filename(task))>>},
                    {<<"tts", TtsCost>>, <<"rubric", RubricCost>>})
    ELSE TaskResult(task.task_id, "in_progress", None, {}, {})

\* PipelineRunner._process_task from its await on: the TaskResult returned
\* when the pipeline ended well (out = "ok") or raised (out = "raise")
process_task(task, out) ==
    IF out = "ok"
    THEN TaskResult(task.task_id, "completed", None,
                    {<<"final_video", Path(output_filename(task))>>},
                    {<<"tts", TtsCost>>, <<"rubric", RubricCost>>})
    ELSE TaskResult(task.task_id, "failed", "provider error", {}, {})

\* Faulty variant: the dict is replaced, the other keys are lost.
Put_mut(dict, key, value) == [k \in {key} |-> value]

\* dict[key] = value
Put(dict, key, value) ==
    [k \in DOMAIN dict \cup {key} |-> IF k = key THEN value ELSE dict[k]]

\* Faulty variant: total_cost is assigned, not added to.
update_state_assign(rs, task, result) ==
    LET stored == [rs EXCEPT !.task_results = Put(@, task.task_id, result)]
        listed == IF result.status = "completed"
                  THEN [stored EXCEPT !.completed_tasks = Append(@, task.task_id)]
                  ELSE IF result.status = "failed"
                  THEN [stored EXCEPT !.failed_tasks = Append(@, task.task_id)]
                  ELSE stored
    IN [listed EXCEPT !.total_cost = result_total_cost(result)]

\* Faulty variant: a failed task is not listed in failed_tasks.
update_state_nofail(rs, task, result) ==
    LET stored == [rs EXCEPT !.task_results = Put(@, task.task_id, result)]
        listed == IF result.status = "completed"
                  THEN [stored EXCEPT !.completed_tasks = Append(@, task.task_id)]
                  ELSE stored
    IN [listed EXCEPT !.total_cost = @ + result_total_cost(result)]

\* The "Update state" block of process_with_semaphore
update_state(rs, task, result) ==
    LET stored == [rs EXCEPT !.task_results = Put(@, task.task_id, result)]
        listed == IF result.status = "completed"
                  THEN [stored EXCEPT !.completed_tasks = Append(@, task.task_id)]
                  ELSE IF result.status = "failed"
                  THEN [stored EXCEPT !.failed_tasks = Append(@, task.task_id)]
                  ELSE stored
    IN [listed EXCEPT !.total_cost = @ + result_total_cost(result)]

\* The "Check cost cap" test of process_with_semaphore
cost_cap_reached(rs, cfg) == rs.total_cost >= cfg.cost_cap

\* What process_with_semaphore leaves in state.json: nothing new when the cap
\* is reached (it returns before _save_state)
checkpoint(rs, cfg, file) == IF cost_cap_reached(rs, cfg) THEN file ELSE save(rs)

\* Faulty variant: no coroutine waits for the semaphore.
initial_coro_mut(ts, limit) == [i \in 1..Len(ts) |-> "running"]

\* asyncio.gather over process_with_semaphore of every task, first loop
\* iteration: in list order each coroutine takes a semaphore slot and runs to
\* the await of _process_task, or queues on the semaphore when none is left.
initial_coro(ts, limit) ==
    [i \in 1..Len(ts) |-> IF i <= limit THEN "running" ELSE "waiting"]

Count(c, what) == Cardinality({i \in DOMAIN c : c[i] = what})

\* Faulty variant: the last waiter of the queue is woken.
wake_last(c) ==
    IF \E j \in DOMAIN c : c[j] = "waiting"
    THEN [c EXCEPT ![CHOOSE j \in DOMAIN c :
                        /\ c[j] = "waiting"
                        /\ \A k \in DOMAIN c : c[k] = "waiting" => k <= j] = "woken"]
    ELSE c

\* Semaphore.release: the first waiter of the queue is woken
wake_next(c) ==
    IF \E j \in DOMAIN c : c[j] = "waiting"
    THEN [c EXCEPT ![CHOOSE j \in DOMAIN c :
                        /\ c[j] = "waiting"
                        /\ \A k \in DOMAIN c : c[k] = "waiting" => j <= k] = "woken"]
    ELSE c

\* Faulty variant: the coroutine that ends cancels every other one.
release_cancel(c, i) == [k \in DOMAIN c |-> "done"]

\* The coroutine of task i ends (by the return at the cap or at the end of
\* its body): "async with" releases its slot; the other coroutines are left
\* as they are.
release(c, i) == wake_next([c EXCEPT ![i] = "done"])

\* The manifest of run()
manifest_data(all_tasks, rs) ==
    [total_videos |-> Len(all_tasks),
     completed |-> Len(rs.completed_tasks),
     failed |-> Len(rs.failed_tasks),
     total_cost |-> rs.total_cost,
     videos |-> [i \in 1..Len(all_tasks) |->
        [task_id |-> all_tasks[i].task_id, actor_id |-> all_tasks[i].actor_id,
         variant_type |-> all_tasks[i].variant_type,
         variant_num |-> all_tasks[i].variant_num,
         filename |-> output_filename(all_tasks[i]),
         status |-> IF all_tasks[i].task_id \in DOMAIN rs.task_results
                    THEN rs.task_results[all_tasks[i].task_id].status
                    ELSE "pending"]]]

RECURSIVE SumCost(_, _, _)
\* sum(r.costs.get(key, 0) for r in task_results.values()), over the ids
SumCost(results, ids, key) ==
    IF ids = {} THEN 0
    ELSE LET id == CHOOSE x \in ids : TRUE
         IN SumValues({kv \in results[id].costs : kv[1] = key})
            + SumCost(results, ids \ {id}, key)

\* The cost report of run(); per_video_average is kept as the pair
\* <<total_cost, number of completed tasks>> it divides, 0 when none completed
cost_report_data(cfg, rs) ==
    [total_cost |-> rs.total_cost, cost_cap |-> cfg.cost_cap,
     providers |->
        [elevenlabs |-> SumCost(rs.task_results, DOMAIN rs.task_results, "tts"),
         gemini |-> SumCost(rs.task_results, DOMAIN rs.task_results, "rubric")],
     per_video_average |->
        IF rs.completed_tasks # <<>>
        THEN <<rs.total_cost, Len(rs.completed_tasks)>> ELSE <<0>>]

TaskIds(cfg) == {build_matrix(cfg)[i].task_id : i \in DOMAIN build_matrix(cfg)}

NoOutcome == [id \in TaskIds(config) |-> "none"]

\* PipelineRunner.__init__ in a fresh run directory.  The runner holds no
\* CostTracker (cost_tracker = None): the ledger of the run is the one a
\* CostTracker on the run directory would load, and no code of the runner
\* writes it.
RunnerInit ==
    /\ config \in Configs
    /\ max_parallel \in 1..MaxParallel
    /\ pc = "init"
    /\ mode = "none"
    /\ state = Nothing
    /\ tasks = <<>>
    /\ coro = <<>>
    /\ semaphore = 0
    /\ outcome = NoOutcome
    /\ state_json = Missing
    /\ config_yaml = Missing
    /\ manifest = Missing
    /\ cost_report = Missing
    /\ returned = Nothing

\* asyncio.run(self._run_tasks_async(ts)) up to the end of the first loop
\* iteration
Dispatch(ts) ==
    /\ tasks' = ts
    /\ coro' = initial_coro(ts, max_parallel)
    /\ semaphore' = max_parallel - Count(initial_coro(ts, max_parallel), "running")
    /\ outcome' = NoOutcome
    /\ pc' = "dispatch"
    /\ returned' = Nothing

\* The process is gone, and its memory with it
Dead(how) ==
    /\ pc' = how
    /\ state' = Nothing
    /\ tasks' = <<>>
    /\ coro' = <<>>
    /\ semaphore' = 0
    /\ outcome' = NoOutcome
    /\ returned' = Nothing

\* PipelineRunner.run(dry_run=False) up to the first awaits of the tasks.
\* The runner is modelled with the task list build_matrix is written to build
\* (see build_matrix and build_matrix_call).
Run ==
    /\ UNCHANGED <<ledger_vars, matrix_vars>>
    /\ pc = "init"
    /\ LET all_tasks == build_matrix(config)
           rs == RunState(hash_config(config), Len(all_tasks))
       IN /\ state' = Some(rs)
          /\ state_json' = save(rs)
          /\ config_yaml' = Written(config)
          /\ Dispatch(all_tasks)
    /\ mode' = "run"
    /\ UNCHANGED <<config, max_parallel, manifest, cost_report>>

\* Faulty variant: the dry run saves the state it returns.
RunDry_saves ==
    /\ UNCHANGED <<ledger_vars, matrix_vars>>
    /\ pc = "init"
    /\ LET all_tasks == build_matrix(config)
           rs == RunState(hash_config(config), Len(all_tasks))
       IN /\ returned' = Some(rs)
          /\ state_json' = save(rs)
    /\ pc' = "finished"
    /\ mode' = "dry_run"
    /\ UNCHANGED <<config, max_parallel, state, tasks, coro, semaphore, outcome,
                   config_yaml, manifest, cost_report>>

\* PipelineRunner.run(dry_run=True): the matrix is built and displayed and a
\* new RunState is returned; self.state is not assigned, _run_tasks_async is
\* not called and no file is opened.
RunDry ==
    /\ UNCHANGED <<ledger_vars, matrix_vars>>
    /\ pc = "init"
    /\ LET all_tasks == build_matrix(config)
       IN returned' = Some(RunState(hash_config(config), Len(all_tasks)))
    /\ pc' = "finished"
    /\ mode' = "dry_run"
    /\ UNCHANGED <<config, max_parallel, state, tasks, coro, semaphore, outcome,
                   state_json, config_yaml, manifest, cost_report>>

\* A coroutine woken by a release takes its slot and runs to the await of
\* _process_task; woken coroutines resume in the order they were woken.
StartWoken(j) ==
    /\ UNCHANGED <<ledger_vars, matrix_vars>>
    /\ pc = "dispatch"
    /\ j \in DOMAIN coro
    /\ coro[j] = "woken"
    /\ \A k \in DOMAIN coro : coro[k] = "woken" => j <= k
    /\ coro' = [coro EXCEPT ![j] = "running"]
    /\ semaphore' = semaphore - 1
    /\ UNCHANGED <<config, max_parallel, pc, mode, state, tasks, outcome,
                   state_json, config_yaml, manifest, cost_report, returned>>

\* The provider pipeline of task i ends (well, or by raising): the rest of
\* _process_task and of process_with_semaphore, to the release of the slot.
Complete(i, out) ==
    /\ UNCHANGED <<ledger_vars, matrix_vars>>
    /\ pc = "dispatch"
    /\ i \in DOMAIN coro
    /\ coro[i] = "running"
    /\ LET result == process_task(tasks[i], out)
           rs == update_state(state[1], tasks[i], result)
       IN /\ state' = Some(rs)
          /\ state_json' = checkpoint(rs, config, state_json)
    /\ outcome' = [outcome EXCEPT ![tasks[i].task_id] = out]
    /\ coro' = release(coro, i)
    /\ semaphore' = semaphore + 1
    /\ UNCHANGED <<config, max_parallel, pc, mode, tasks, config_yaml, manifest,
                   cost_report, returned>>

AllDone == \A i \in DOMAIN coro : coro[i] = "done"

\* What a RunState has: the fields of the dataclass and its methods
RunStateAttributes ==
    {"run_id", "config_hash", "total_tasks", "completed_tasks", "failed_tasks",
     "task_results", "total_cost", "start_time", "end_time",
     "to_dict", "from_dict", "save", "load"}

\* self.state.<name> is evaluated without an AttributeError
has_attribute(name) == name \in RunStateAttributes

\* Faulty variant: resume() writes the reports of run() as well.
Finalize_reports ==
    /\ UNCHANGED <<ledger_vars, matrix_vars>>
    /\ pc = "dispatch"
    /\ AllDone
    /\ LET rs == [state[1] EXCEPT !.end_time = "set"]
       IN /\ state' = Some(rs)
          /\ state_json' = save(rs)
          /\ IF mode = "resume" \/ has_attribute("duration")
             THEN /\ manifest' = Written(manifest_data(tasks, rs))
                  /\ cost_report' = Written(cost_report_data(config, rs))
             ELSE UNCHANGED <<manifest, cost_report>>
    /\ pc' = IF mode = "run" /\ ~has_attribute("duration")
             THEN "raised" ELSE "finished"
    /\ returned' = IF mode = "run" /\ ~has_attribute("duration")
                   THEN Nothing
                   ELSE Some([state[1] EXCEPT !.end_time = "set"])
    /\ UNCHANGED <<config, max_parallel, mode, tasks, coro, semaphore, outcome, config_yaml>>

\* gather has returned: the rest of run() or of resume().  Both set end_time
\* and save the state.  run() then builds the manifest, whose "duration"
\* entry reads self.state.duration: RunState defines no such attribute, the
\* AttributeError leaves run() before manifest.json and cost_report.json are
\* written.  resume() writes neither file and returns the state.
Finalize ==
    /\ UNCHANGED <<ledger_vars, matrix_vars>>
    /\ pc = "dispatch"
    /\ AllDone
    /\ LET rs == [state[1] EXCEPT !.end_time = "set"]
       IN /\ state' = Some(rs)
          /\ state_json' = save(rs)
          /\ IF mode = "run" /\ has_attribute("duration")
             THEN /\ manifest' = Written(manifest_data(tasks, rs))
                  /\ cost_report' = Written(cost_report_data(config, rs))
             ELSE UNCHANGED <<manifest, cost_report>>
    /\ pc' = IF mode = "run" /\ ~has_attribute("duration")
             THEN "raised" ELSE "finished"
    /\ returned' = IF mode = "run" /\ ~has_attribute("duration")
                   THEN Nothing
                   ELSE Some([state[1] EXCEPT !.end_time = "set"])
    /\ UNCHANGED <<config, max_parallel, mode, tasks, coro, semaphore, outcome,
                   config_yaml>>

\* The process is killed between two steps of the event loop.
Kill ==
    /\ UNCHANGED <<ledger_vars, matrix_vars>>
    /\ pc = "dispatch"
    /\ Dead("killed")
    /\ UNCHANGED <<config, max_parallel, mode, state_json, config_yaml, manifest,
                   cost_report>>

\* Some step that rewrites state.json is about to run
SaveEnabled ==
    \/ pc = "init"
    \/ /\ pc = "dispatch"
       /\ \/ AllDone
          \/ \E i \in DOMAIN coro, out \in Outcomes :
                /\ coro[i] = "running"
                /\ ~cost_cap_reached(
                      update_state(state[1], tasks[i], process_task(tasks[i], out)),
                      config)

\* The process is killed inside RunState.save, after open(path, 'w') emptied
\* the file and before the JSON text reached it.
KillDuringSave ==
    /\ UNCHANGED <<ledger_vars, matrix_vars>>
    /\ SaveEnabled
    /\ state_json' = Truncated
    /\ Dead("killed")
    /\ mode' = IF pc = "init" THEN "run" ELSE mode
    /\ UNCHANGED <<config, max_parallel, config_yaml, manifest, cost_report>>

\* The process is killed in run() or resume() after the final _save_state
\* and before anything else is written.
KillAfterFinalSave ==
    /\ UNCHANGED <<ledger_vars, matrix_vars>>
    /\ pc = "dispatch"
    /\ AllDone
    /\ state_json' = save([state[1] EXCEPT !.end_time = "set"])
    /\ Dead("killed")
    /\ UNCHANGED <<config, max_parallel, mode, config_yaml, manifest, cost_report>>

\* Faulty variant: a file that cannot be read gives the state of a new run.
load_state_fresh(file) ==
    IF file.kind = "json" THEN Some(from_dict(file.data))
    ELSE Some(RunState(hash_config(config), Len(build_matrix(config))))

\* PipelineRunner._load_state with RunState.load, as resume() sees it: the
\* state read from state.json, or Nothing when the file is missing
\* (_load_state returns False, resume raises ValueError) or does not hold a
\* JSON text (json.load raises, self.state is not assigned)
load_state(file) ==
    IF file.kind = "json" THEN Some(from_dict(file.data)) ELSE Nothing

\* Faulty variant: the state takes the hash of the configuration at hand.
verify_config_rehash(rs, cfg) == [rs EXCEPT !.config_hash = hash_config(cfg)]

\* resume(), "Verify config hasn't changed": a warning is logged when the
\* hashes differ, the loaded state is left as it is
verify_config(rs, cfg) == rs

\* Faulty variant: the state is finalized before it is returned.
no_remaining_tasks_end(rs) == [rs EXCEPT !.end_time = "set"]

\* resume(), "if not remaining_tasks": the loaded state is returned
no_remaining_tasks(rs) == rs

\* PipelineRunner.resume in a new process on the same run directory and
\* configuration, up to the first awaits of the tasks
Resume ==
    /\ UNCHANGED <<ledger_vars, matrix_vars>>
    /\ pc \in {"init", "killed", "finished", "raised", "failed"}
    /\ mode' = "resume"
    /\ IF load_state(state_json) = Nothing
       THEN Dead("failed")
       ELSE LET rs == verify_config(load_state(state_json)[1], config)
                remaining_tasks ==
                    get_resume_tasks(config, rs.completed_tasks \o rs.failed_tasks)
            IN IF remaining_tasks = <<>>
               THEN /\ state' = Some(no_remaining_tasks(rs))
                    /\ pc' = "finished"
                    /\ tasks' = <<>>
                    /\ coro' = <<>>
                    /\ semaphore' = 0
                    /\ outcome' = NoOutcome
                    /\ returned' = Some(no_remaining_tasks(rs))
               ELSE /\ state' = Some(rs)
                    /\ Dispatch(remaining_tasks)
    /\ UNCHANGED <<config, max_parallel, state_json, config_yaml, manifest,
                   cost_report>>

(***************************************************************************)
(* Calls of the matrix builder                                             *)
(***************************************************************************)
\* A builder nothing has called
MatrixIdle ==
    /\ builder = [offer_id |-> OfferId, actors |-> <<Olivia>>,
                  identical_script |-> TRUE, minor_script_variants |-> 0,
                  cost_cap |-> 3000]
    /\ process = 1
    /\ builds = <<>>
    /\ resumed = Nothing

\* matrix_builder.build_matrix()
BuildMatrix ==
    /\ Len(builds) < MaxBuilds
    /\ builds' = Append(builds, [process |-> process,
                                 result |-> build_matrix_call(builder)])
    /\ UNCHANGED <<builder, process, resumed>>
    /\ UNCHANGED <<ledger_vars, runner_vars>>

\* A new process builds its VariantMatrixBuilder on the same configuration.
NewProcess ==
    /\ process < MaxBuilds
    /\ process' = process + 1
    /\ UNCHANGED <<builder, builds, resumed>>
    /\ UNCHANGED <<ledger_vars, runner_vars>>

\* A task id of another offer: no configuration of the builder yields it
ForeignId == generate_task_id("other1", "olivia", "identical", 0)

RECURSIVE ListOf(_)
\* A list holding the elements of a set, each once
ListOf(S) ==
    IF S = {} THEN <<>>
    ELSE LET x == CHOOSE y \in S : TRUE IN <<x>> \o ListOf(S \ {x})

\* The lists of ids get_resume_tasks is called with: ids of the matrix, and
\* one id the matrix does not hold
DoneLists(cfg) == {ListOf(S) : S \in SUBSET (TaskIds(cfg) \cup {ForeignId})}

\* matrix_builder.get_resume_tasks(completed_task_ids), on the task list
\* build_matrix is written to build (see build_matrix and build_matrix_call)
GetResumeTasks(completed_task_ids) ==
    /\ resumed' = Some([done |-> completed_task_ids,
                        tasks |-> get_resume_tasks(config, completed_task_ids)])
    /\ UNCHANGED <<builder, process, builds>>
    /\ UNCHANGED <<ledger_vars, runner_vars>>

(***************************************************************************)
(* Specifications                                                          *)
(***************************************************************************)
\* The runner: one run directory, run() and then any number of kills and
\* resume() calls.
Init ==
    /\ RunnerInit
    /\ cost_cap = config.cost_cap * 10000
    /\ output_dir = TRUE
    /\ entries = <<>>
    /\ total_by_provider = [p \in Provider |-> 0]
    /\ cost_file = <<>>
    /\ last_call = NoCall
    /\ awaiting = {}
    /\ MatrixIdle

Next ==
    \/ Run
    \/ \E j \in DOMAIN coro : StartWoken(j)
    \/ \E i \in DOMAIN coro, out \in Outcomes : Complete(i, out)
    \/ Finalize
    \/ Kill
    \/ KillDuringSave
    \/ KillAfterFinalSave
    \/ Resume

Spec == Init /\ [][Next]_vars

\* Every task id of every configuration
AllTaskIds == UNION {TaskIds(cfg) : cfg \in Configs}

\* The runner, started with run(dry_run=True) or with run()
DryNext ==
    \/ RunDry
    \/ Run
    \/ \E j \in DOMAIN coro : StartWoken(j)
    \/ \E i \in DOMAIN coro, out \in Outcomes : Complete(i, out)
    \/ Finalize
    \/ Kill
    \/ KillDuringSave
    \/ KillAfterFinalSave
    \/ Resume

DrySpec == Init /\ [][DryNext]_vars

\* One call of run() in a process that is not killed.
RunNext ==
    \/ Run
    \/ \E j \in DOMAIN coro : StartWoken(j)
    \/ \E i \in DOMAIN coro, out \in Outcomes : Complete(i, out)
    \/ Finalize

\* That call on an event loop that resumes a coroutine whose awaited pipeline
\* has ended: while tasks are in their pipelines, one of them leaves it (the
\* task list is finite, so each of them does).
FairSpec ==
    /\ Init
    /\ [][RunNext]_vars
    /\ WF_vars(\E i \in DOMAIN coro, out \in Outcomes : Complete(i, out))

\* One call of run() whose provider pipelines all end and whose event loop
\* keeps running what can run: a step of the call is taken whenever one is
\* possible.
RunFairSpec ==
    /\ Init
    /\ [][RunNext]_vars
    /\ WF_vars(RunNext)

\* The ledger alone, with its callers; the runner stays as built.
LedgerSpecInit ==
    /\ LedgerInit
    /\ RunnerInit
    /\ config = [offer_id |-> OfferId, actors |-> <<"olivia", "janet">>,
                 identical_script |-> TRUE, minor_script_variants |-> MaxVariants,
                 cost_cap |-> 3000]
    /\ max_parallel = 1
    /\ MatrixIdle

LedgerSpecNext ==
    \/ \E c \in Callers : GenerateVariation(c)
    \/ TrackCostRated
    \/ \E c \in Callers : TrackCostScript(c)
    \/ TrackTts
    \/ TrackVisionEval
    \/ Reconstruct

LedgerSpec == LedgerSpecInit /\ [][LedgerSpecNext]_vars

\* The costs can_afford is asked about: those of the priced operations for
\* the unit counts of the model
EstimatedCosts == {units * PROVIDER_RATES[k] : units \in Units, k \in DOMAIN PROVIDER_RATES}

\* The caps a later CostTracker on the directory is built with
LaterCaps == {300000, 1000000}

\* tracker.can_afford(estimated_cost)
CanAfford ==
    /\ UNCHANGED <<runner_vars, matrix_vars>>
    /\ \E estimated_cost \in EstimatedCosts :
         last_call' = [op |-> "can_afford", args |-> <<estimated_cost>>,
                       outcome |-> "ok",
                       ret |-> Some(can_afford(total_by_provider, cost_cap,
                                               estimated_cost))]
    /\ UNCHANGED <<cost_cap, output_dir, entries, total_by_provider, cost_file,
                   awaiting>>

\* tracker.get_remaining_budget()
GetRemainingBudget ==
    /\ UNCHANGED <<runner_vars, matrix_vars>>
    /\ last_call' = [op |-> "get_remaining_budget", args |-> <<>>, outcome |-> "ok",
                     ret |-> Some(get_remaining_budget(total_by_provider, cost_cap))]
    /\ UNCHANGED <<cost_cap, output_dir, entries, total_by_provider, cost_file,
                   awaiting>>

\* CostTracker(cost_cap, output_dir) on the directory of the ledger, with a
\* cap of its own: __init__ replays the file, whatever the cap.
NewCostTracker(cap) ==
    /\ UNCHANGED <<runner_vars, matrix_vars>>
    /\ cost_cap' = cap
    /\ LET L == load_existing([entries |-> <<>>,
                               total_by_provider |-> [p \in Provider |-> 0],
                               cost_file |-> cost_file], cost_file)
       IN /\ entries' = L.entries
          /\ total_by_provider' = L.total_by_provider
    /\ last_call' = [NoCall EXCEPT !.op = "load_existing"]
    /\ awaiting' = {}
    /\ UNCHANGED <<output_dir, cost_file>>

\* The ledger with its queries, and trackers built later on its directory.
QueryNext ==
    \/ \E c \in Callers : GenerateVariation(c)
    \/ TrackCostRated
    \/ \E c \in Callers : TrackCostScript(c)
    \/ TrackTts
    \/ TrackVisionEval
    \/ CanAfford
    \/ GetRemainingBudget
    \/ \E cap \in LaterCaps : NewCostTracker(cap)

QuerySpec == LedgerSpecInit /\ [][QueryNext]_vars

\* The matrix builder alone: one configuration, calls of build_matrix in one
\* process and the next.
MatrixSpecInit ==
    /\ builder \in BuilderConfigs
    /\ process = 1
    /\ builds = <<>>
    /\ resumed = Nothing
    /\ RunnerInit
    /\ config = [offer_id |-> OfferId, actors |-> <<"olivia", "janet">>,
                 identical_script |-> TRUE, minor_script_variants |-> MaxVariants,
                 cost_cap |-> 3000]
    /\ max_parallel = 1
    /\ LedgerInit
    /\ cost_cap = 1000000
    /\ output_dir = TRUE

MatrixSpecNext ==
    \/ BuildMatrix
    \/ NewProcess

MatrixSpec == MatrixSpecInit /\ [][MatrixSpecNext]_vars

\* The builder of a runner, asked for the tasks that remain after any list of
\* done ids.
ResumeTasksNext == \E done \in DoneLists(config) : GetResumeTasks(done)

ResumeTasksSpec == Init /\ [][ResumeTasksNext]_vars

\* The configurations one edit of the configuration file gives: one field of
\* the configuration is changed
EditedConfigs(cfg) ==
    {c \in Configs :
        Cardinality({f \in DOMAIN cfg : c[f] # cfg[f]}) = 1}

\* PipelineRunner(config, run_id) in a new process, on the directory of a run
\* that has ended or was killed and with the configuration file edited since
\* run() wrote its snapshot
NewRunner(cfg) ==
    /\ UNCHANGED <<ledger_vars, matrix_vars>>
    /\ pc \in {"killed", "finished", "raised", "failed"}
    /\ config_yaml.kind = "json"
    /\ config = config_yaml.data
    /\ cfg \in EditedConfigs(config)
    /\ config' = cfg
    /\ state' = Nothing
    /\ tasks' = <<>>
    /\ coro' = <<>>
    /\ semaphore' = 0
    /\ outcome' = [id \in TaskIds(cfg) |-> "none"]
    /\ returned' = Nothing
    /\ UNCHANGED <<max_parallel, pc, mode, state_json, config_yaml, manifest,
                   cost_report>>

\* The runner of one run directory whose configuration is edited once
\* between two processes.
DriftNext ==
    \/ Run
    \/ \E j \in DOMAIN coro : StartWoken(j)
    \/ \E i \in DOMAIN coro, out \in Outcomes : Complete(i, out)
    \/ Finalize
    \/ Kill
    \/ KillDuringSave
    \/ KillAfterFinalSave
    \/ Resume
    \/ \E cfg \in Configs : NewRunner(cfg)

DriftSpec == Init /\ [][DriftNext]_vars

(***************************************************************************)
(* Properties                                                              *)
(***************************************************************************)
RECURSIVE SumEntries(_)
SumEntries(es) ==
    IF es = <<>> THEN 0 ELSE Head(es).total_cost + SumEntries(Tail(es))

\* The ids of the tasks whose pipeline is executing
RunningIds == {tasks[i].task_id : i \in {j \in DOMAIN coro : coro[j] = "running"}}

HasResult(id) == state # Nothing /\ id \in DOMAIN state[1].task_results

\* The status of a matrix task in the running process
Status(id) ==
    IF id \in RunningIds THEN "in_progress"
    ELSE IF HasResult(id) THEN state[1].task_results[id].status
    ELSE "pending"

RECURSIVE SumResults(_, _)
SumResults(results, ids) ==
    IF ids = {} THEN 0
    ELSE LET id == CHOOSE x \in ids : TRUE
         IN SumValues(results[id].costs) + SumResults(results, ids \ {id})

\* C1: a track_cost call whose cost would take the total above the cap raises
\* CostCapExceeded and leaves entries, every per-provider total (so total())
\* and cost_tracking.jsonl exactly as they were.
C1_CapExceededRecordsNothing ==
    [][last_call'.op = "track_cost" =>
        LET a == last_call'.args
            found == unit_cost_of(a[1], a[2], a[4])
        IN (/\ found # Nothing
            /\ get_total_cost(total_by_provider) + a[3] * found[1] > cost_cap)
           => /\ last_call'.outcome = "CostCapExceeded"
              /\ entries' = entries
              /\ total_by_provider' = total_by_provider
              /\ cost_file' = cost_file]_vars

\* Two charges of 40 cents were recorded under a cap of 100 and the third was
\* refused.
C1_Witness ==
    /\ last_call.op = "track_cost"
    /\ last_call.outcome = "CostCapExceeded"
    /\ last_call.args[3] * 10000 = 400000
    /\ Len(entries) = 2
    /\ get_total_cost(total_by_provider) = 800000
    /\ cost_cap = 1000000

\* C2: from the empty ledger, whatever calls of track_cost, track_tts and
\* track_vision_eval are made by whatever callers in flight, the total (of the
\* per-provider totals, of the entries and of the lines of the file) never
\* exceeds the cap.
C2_TotalWithinCap ==
    /\ get_total_cost(total_by_provider) <= cost_cap
    /\ SumEntries(entries) <= cost_cap
    /\ SumEntries(cost_file) <= cost_cap

\* The cap is reached exactly, by charges of two providers, while a caller is
\* in flight.
C2_Witness ==
    /\ get_total_cost(total_by_provider) = cost_cap
    /\ Cardinality({entries[i].provider : i \in DOMAIN entries}) >= 2
    /\ awaiting # {}

DiskDone ==
    IF state_json.kind = "json"
    THEN Range(state_json.data.completed_tasks) \cup Range(state_json.data.failed_tasks)
    ELSE {}

StatusStep(a, b) ==
    \/ a = b
    \/ a = "pending" /\ b = "in_progress"
    \/ a = "in_progress" /\ b \in {"completed", "failed"}

StoredTerminal ==
    state # Nothing =>
        /\ \A id \in DOMAIN state[1].task_results :
              state[1].task_results[id].status \in {"completed", "failed"}
        /\ \A id \in RunningIds : id \notin DOMAIN state[1].task_results

Raised == {id \in TaskIds(config) : outcome[id] = "raise"}

DoneIds(rs) == rs.completed_tasks \o rs.failed_tasks

\* Nothing is missing from the aggregate fields of a RunState: every stored
\* result is listed once, in the list of its status, and paid for once.
Consistent(rs) ==
    /\ Cardinality(Range(DoneIds(rs))) = Len(DoneIds(rs))
    /\ Range(DoneIds(rs)) = DOMAIN rs.task_results
    /\ \A id \in DOMAIN rs.task_results :
          /\ rs.task_results[id].task_id = id
          /\ rs.task_results[id].status = "completed"
             <=> id \in Range(rs.completed_tasks)
    /\ rs.total_cost = SumResults(rs.task_results, DOMAIN rs.task_results)

Recorded(id) ==
    /\ HasResult(id)
    /\ state[1].task_results[id].status \in {"completed", "failed"}
    /\ id \in Range(DoneIds(state[1]))
    /\ state[1].total_cost
         = SumResults(state[1].task_results, DOMAIN state[1].task_results)

Replayed ==
    load_existing([entries |-> <<>>, total_by_provider |-> [p \in Provider |-> 0],
                   cost_file |-> cost_file], cost_file)

\* C14: on a ledger with an output directory, after any calls (recorded or
\* refused) a new CostTracker on the directory holds the entries of the live
\* ledger in their order, the same per-provider totals and the same total;
\* constructing it changes neither the ledger nor the file, so a second replay
\* gives the same again.
C14_LedgerReplay ==
    [][output_dir
       => /\ Replayed.entries = entries
          /\ Replayed.total_by_provider = total_by_provider
          /\ get_total_cost(Replayed.total_by_provider)
               = get_total_cost(total_by_provider)
          /\ Replayed'.entries = entries'
          /\ Replayed'.total_by_provider = total_by_provider'
          /\ last_call'.op = "load_existing"
             => /\ entries' = entries
                /\ total_by_provider' = total_by_provider
                /\ cost_file' = cost_file]_vars

\* A ledger rebuilt from a file of three lines of two providers, its total at
\* the cap.
C14_Witness ==
    /\ output_dir
    /\ last_call.op = "load_existing"
    /\ Len(cost_file) = 3
    /\ Len(entries) = 3
    /\ Cardinality({entries[k].provider : k \in DOMAIN entries}) = 2
    /\ get_total_cost(total_by_provider) = cost_cap

IsPrefix(s, t) == Len(s) <= Len(t) /\ \A k \in DOMAIN s : t[k] = s[k]

\* The step made a call track_cost(provider, operation, units, unit_cost) of
\* known rate whose cost fits under the cap, equality included
AdmittedCall ==
    /\ last_call'.op = "track_cost"
    /\ unit_cost_of(last_call'.args[1], last_call'.args[2], last_call'.args[4]) # Nothing
    /\ get_total_cost(total_by_provider)
         + last_call'.args[3]
           * unit_cost_of(last_call'.args[1], last_call'.args[2], last_call'.args[4])[1]
       <= cost_cap

\* What such a call does to the ledger in memory and what it returns
AdmittedEffect ==
    LET provider == last_call'.args[1]
        cost == last_call'.args[3]
                * unit_cost_of(provider, last_call'.args[2], last_call'.args[4])[1]
    IN /\ last_call'.outcome = "ok"
       /\ last_call'.ret = Some(cost)
       /\ Len(entries') = Len(entries) + 1
       /\ IsPrefix(entries, entries')
       /\ entries'[Len(entries')].total_cost = cost
       /\ entries'[Len(entries')].provider = provider
       /\ entries'[Len(entries')].operation = last_call'.args[2]
       /\ entries'[Len(entries')].units = last_call'.args[3]
       /\ total_by_provider'[provider] = total_by_provider[provider] + cost
       /\ \A p \in Provider \ {provider} :
             total_by_provider'[p] = total_by_provider[p]

\* One line, that of the new entry, is appended to cost_tracking.jsonl
OneLineAppended ==
    /\ Len(cost_file') = Len(cost_file) + 1
    /\ IsPrefix(cost_file, cost_file')
    /\ cost_file'[Len(cost_file')].total_cost = entries'[Len(entries')].total_cost
    /\ cost_file'[Len(cost_file')].provider = entries'[Len(entries')].provider

\* C15, as stated: a track_cost call with total() + units*unit_cost <= cap
\* appends one entry of that cost at the end of entries, adds the cost to the
\* provider's total only, appends one line to cost_tracking.jsonl and returns
\* the cost.
C15_AdmittedCallAppendsLine ==
    [][AdmittedCall => AdmittedEffect /\ OneLineAppended]_vars

\* C15: a track_cost call with total() + units*unit_cost <= cap (equality
\* included) appends one entry of that cost at the end of entries, adds the
\* cost to the provider's total only and returns the cost; it appends one line
\* to cost_tracking.jsonl when the ledger has an output directory, and writes
\* nothing when it has none.
C15_AdmittedCallFrame ==
    [][AdmittedCall
       => /\ AdmittedEffect
          /\ IF output_dir THEN OneLineAppended ELSE cost_file' = cost_file]_vars

\* A ledger without a directory admitted a third charge that took the total to
\* the cap exactly; nothing was written.
C15_Witness ==
    /\ ~output_dir
    /\ last_call.op = "track_cost"
    /\ last_call.outcome = "ok"
    /\ Len(entries) = 3
    /\ get_total_cost(total_by_provider) = cost_cap
    /\ cost_file = <<>>

\* C16: a track_cost call without unit_cost for a pair the rate table does not
\* hold ends with ValueError and leaves entries, totals and file as they were;
\* with a unit_cost the call never ends with ValueError, whatever the table
\* holds: it is priced units * unit_cost and admitted if that fits under the
\* cap, its entry carrying the given unit_cost.
C16_UnknownRate ==
    [][last_call'.op = "track_cost"
       => LET provider == last_call'.args[1]
              operation == last_call'.args[2]
              units == last_call'.args[3]
              unit_cost == last_call'.args[4]
          IN /\ (unit_cost = Nothing /\ <<provider, operation>> \notin DOMAIN PROVIDER_RATES)
                => /\ last_call'.outcome = "ValueError"
                   /\ last_call'.ret = Nothing
                   /\ entries' = entries
                   /\ total_by_provider' = total_by_provider
                   /\ cost_file' = cost_file
             /\ unit_cost # Nothing
                => /\ last_call'.outcome # "ValueError"
                   /\ last_call'.outcome = "ok"
                      <=> get_total_cost(total_by_provider) + units * unit_cost[1]
                            <= cost_cap
                   /\ last_call'.outcome = "ok"
                      => /\ last_call'.ret = Some(units * unit_cost[1])
                         /\ entries' = Append(entries,
                               CostEntry(provider, operation, units, unit_cost[1],
                                         units * unit_cost[1], None, <<>>))]_vars

\* script_generation was charged with its unit cost, and the same pair without
\* one was then refused.
C16_Witness ==
    /\ last_call.op = "track_cost"
    /\ last_call.outcome = "ValueError"
    /\ last_call.args[2] = "script_generation"
    /\ last_call.args[3] > 0
    /\ entries # <<>>
    /\ entries[Len(entries)].operation = "script_generation"
    /\ entries[Len(entries)].total_cost > 0
    /\ <<"gemini", "script_generation">> \notin DOMAIN PROVIDER_RATES

\* C17: every step of the ledger (a call of track_cost, track_tts or
\* track_vision_eval, recorded or refused, or a restart on its directory)
\* leaves the entries it had as a prefix of the entries it has, and the lines
\* of cost_tracking.jsonl as a prefix of its lines: nothing is changed,
\* reordered, removed or rewritten.  (A CostTracker built without a directory
\* is a new, empty ledger, not a later state of an old one.)
C17_AppendOnly ==
    [][/\ IsPrefix(cost_file, cost_file')
       /\ (output_dir \/ last_call'.op # "load_existing")
          => IsPrefix(entries, entries')
       /\ entries' # entries
          => /\ last_call'.outcome = "ok" \/ last_call'.op = "track_vision_eval"
             /\ output_dir => Len(cost_file') - Len(cost_file)
                                = Len(entries') - Len(entries)]_vars

\* Three entries of different costs, each on its line of the file, the last
\* appended by track_tts.
C17_Witness ==
    /\ output_dir
    /\ last_call.op = "track_tts"
    /\ last_call.outcome = "ok"
    /\ Len(entries) = 3
    /\ entries[1].total_cost # entries[2].total_cost
    /\ entries[2].total_cost # entries[3].total_cost
    /\ IsPrefix(entries, cost_file)

\* The tasks the configuration asks of each actor
PerActor(cfg) == (IF cfg.identical_script THEN 1 ELSE 0) + cfg.minor_script_variants

\* C18: every call of build_matrix() on a configuration, in whatever process,
\* returns a task list; any two of them have the same task_id sequence; and
\* each task_id is the digest of (offer_id, actor name, variant kind, variant
\* number) and of nothing else.
C18_Deterministic ==
    \A a \in DOMAIN builds, b \in DOMAIN builds :
        /\ builds[a].result.outcome = "ok"
        /\ builds[a].result.task_ids = builds[b].result.task_ids
        /\ [k \in DOMAIN builds[a].result.tasks |-> builds[a].result.tasks[k].task_id]
             = [k \in DOMAIN builds[b].result.tasks |-> builds[b].result.tasks[k].task_id]
        /\ \A k \in DOMAIN builds[a].result.task_ids :
              \E actor \in Range(builder.actors),
                 variant_type \in {"identical", "modified"},
                 variant_num \in 0..builder.minor_script_variants :
                 builds[a].result.task_ids[k]
                   = generate_task_id(builder.offer_id, actor.name,
                                      variant_type, variant_num)

\* C19: build_matrix() returns, actor by actor in configuration order, the
\* identical task (variant_num 0) if and only if identical_script is on, then
\* the modified tasks 1..minor_script_variants in ascending order: a list of
\* (number of actors) x (that many per actor) tasks.
C19_MatrixShape ==
    \A b \in DOMAIN builds :
        LET r == builds[b].result
            per == PerActor(builder)
        IN /\ r.outcome = "ok"
           /\ Len(r.tasks) = Len(builder.actors) * per
           /\ \A k \in DOMAIN r.tasks :
                 LET offset == (k - 1) % per
                     num == IF builder.identical_script THEN offset ELSE offset + 1
                 IN /\ r.tasks[k].actor_id = builder.actors[((k - 1) \div per) + 1]
                    /\ r.tasks[k].variant_num = num
                    /\ r.tasks[k].variant_type
                         = IF num = 0 THEN "identical" ELSE "modified"

\* total_tasks of the RunState in memory and of the one in state.json
TotalTasksIs(n) ==
    /\ state # Nothing => state[1].total_tasks = n
    /\ state_json.kind = "json" => state_json.data.total_tasks = n

ResumeStep == pc # "dispatch" /\ mode' = "resume"

\* Every task of the matrix is listed as done in state.json
AllOnDisk ==
    /\ state_json.kind = "json"
    /\ TaskIds(config) \subseteq Range(state_json.data.completed_tasks)
                                   \cup Range(state_json.data.failed_tasks)

C23_ResumeWithoutState ==
    [][(ResumeStep /\ state_json.kind # "json")
         => /\ pc' = "failed"
            /\ tasks' = <<>>
            /\ coro' = <<>>
            /\ state' = Nothing
            /\ state_json' = state_json]_vars

\* run() was killed inside a save; resume() on the truncated file has raised
\* and the file is still the truncated one.
C23_Witness ==
    /\ mode = "resume"
    /\ pc = "failed"
    /\ state_json = Truncated
    /\ config_yaml.kind = "json"
    /\ state = Nothing

\* The configuration at hand is not the one the state in state.json was
\* created under
Drifted ==
    /\ state_json.kind = "json"
    /\ hash_config(config) # state_json.data.config_hash

Entered(i) == coro[i] \in {"running", "done"}

RunEnded == mode = "run" /\ pc \in {"finished", "raised"}

\* C26: when run() has ended manifest.json lists every task of the matrix
\* once, in matrix order, with the status of its TaskResult or "pending"
\* when it has none, and its completed and failed counts are the lengths of
\* completed_tasks and failed_tasks.
C26_ManifestListsEveryTask ==
    RunEnded =>
        /\ manifest.kind = "json"
        /\ Len(manifest.data.videos) = Len(build_matrix(config))
        /\ \A i \in DOMAIN manifest.data.videos :
              /\ manifest.data.videos[i].task_id = build_matrix(config)[i].task_id
              /\ manifest.data.videos[i].status = Status(build_matrix(config)[i].task_id)
              /\ manifest.data.videos[i].status \in {"completed", "failed", "pending"}
        /\ manifest.data.completed = Len(state[1].completed_tasks)
        /\ manifest.data.failed = Len(state[1].failed_tasks)

RunFinalized ==
    /\ pc = "finished"
    /\ RunningIds = {}
    /\ semaphore = max_parallel
    /\ state[1].end_time = "set"
    /\ state_json = save(state[1])
    /\ manifest.kind = "json"
    /\ cost_report.kind = "json"

\* C28: when every provider pipeline ends, a call of run() that has reached
\* its dispatch loop eventually returns in its finalized state.
C28_RunTerminates ==
    (mode = "run" /\ pc = "dispatch") ~> RunFinalized

\* C29: run() has its initial RunState (total_tasks fixed, nothing done, no
\* cost) in state.json and the configuration in config.yaml when the first
\* task enters its pipeline, and from then on, whatever happens to the
\* process, state.json is a file resume() can load.
C29_InitialStatePersisted ==
    /\ [][(pc = "init" /\ pc' = "dispatch" /\ mode' = "run")
            => /\ state_json' = save(RunState(hash_config(config),
                                              Len(build_matrix(config))))
               /\ state_json'.data.completed_tasks = <<>>
               /\ state_json'.data.failed_tasks = <<>>
               /\ state_json'.data.total_cost = 0
               /\ config_yaml' = Written(config)]_vars
    /\ [](config_yaml.kind = "json" => load_state(state_json) # Nothing)

\* run() has ended after its final save, or resume() has returned after a
\* dispatch loop
Returned == pc \in {"finished", "raised"} /\ (mode = "run" \/ tasks # <<>>)

NoRepeat(seq) == \A i \in DOMAIN seq, j \in DOMAIN seq : seq[i] = seq[j] => i = j

\* Each id is listed at most once in completed_tasks, at most once in
\* failed_tasks, and in one of the two lists only
ListedOnce(rs) ==
    /\ NoRepeat(rs.completed_tasks)
    /\ NoRepeat(rs.failed_tasks)
    /\ Range(rs.completed_tasks) \cap Range(rs.failed_tasks) = {}

ResultsMatchLists(rs) ==
    /\ DOMAIN rs.task_results = Range(rs.completed_tasks) \cup Range(rs.failed_tasks)
    /\ \A id \in Range(rs.completed_tasks) : rs.task_results[id].status = "completed"
    /\ \A id \in Range(rs.failed_tasks) : rs.task_results[id].status = "failed"
    /\ Len(rs.completed_tasks) + Len(rs.failed_tasks) <= rs.total_tasks

OkIds == {id \in TaskIds(config) : outcome[id] = "ok"}

TokensOnlyFit ==
    /\ last_call'.op = "track_vision_eval"
    /\ LET token_cost == last_call'.args[1] * PROVIDER_RATES[<<"gemini", "vision_per_token">>]
           image_cost == last_call'.args[2] * PROVIDER_RATES[<<"gemini", "vision_per_image">>]
           total == get_total_cost(total_by_provider)
       IN /\ total + token_cost <= cost_cap
          /\ total + token_cost + image_cost > cost_cap

RoundTrips(rs) ==
    LET loaded == load_state(save(rs)) IN
    /\ loaded # Nothing
    /\ loaded[1].run_id = rs.run_id
    /\ loaded[1].config_hash = rs.config_hash
    /\ loaded[1].total_tasks = rs.total_tasks
    /\ loaded[1].completed_tasks = rs.completed_tasks
    /\ loaded[1].failed_tasks = rs.failed_tasks
    /\ loaded[1].total_cost = rs.total_cost
    /\ DOMAIN loaded[1].task_results = DOMAIN rs.task_results
    /\ \A id \in DOMAIN rs.task_results :
          /\ loaded[1].task_results[id].task_id = rs.task_results[id].task_id
          /\ loaded[1].task_results[id].status = rs.task_results[id].status
          /\ loaded[1].task_results[id].error_message = rs.task_results[id].error_message
          /\ loaded[1].task_results[id].outputs = rs.task_results[id].outputs
          /\ loaded[1].task_results[id].costs = rs.task_results[id].costs
    /\ save(loaded[1]) = save(rs)

DryRunReturned == mode = "dry_run" /\ pc = "finished"

C39_TotalVideosIsMatrixSize ==
    \A b \in DOMAIN builds :
        builds[b].result.outcome = "ok"
            => Len(builds[b].result.tasks) = total_videos(builder)

========================================================================
